---- MODULE Spec2Model ----
(***************************************************************************)
(* Model of shared_stack.py: the ProductTracker data structure, the remote *)
(* catalog reader (RepositoryManager), the local stack reader and driver   *)
(* (StackManager) and the reconciliation loop of main().                   *)
(*                                                                         *)
(* Strings are TLA+ strings; the parsers work on them character by         *)
(* character, as str.split / str.strip / the `in` operator do.             *)
(***************************************************************************)
EXTENDS Integers, Sequences, FiniteSets, Bags, TLC

(***************************************************************************)
(* Bounds of the model.                                                    *)
(***************************************************************************)
\* publication timestamps are drawn from 1..MaxDate
MaxDate == 2
\* main() is run at most MaxRuns times in a row on the same installation
MaxRuns == 2
\* at most MaxFail external commands exit nonzero
MaxFail == 2

(***************************************************************************)
(* Python string primitives.                                               *)
(***************************************************************************)
NL == "\n"

\* s[i] as a one-character string
CharAt(s, i) == SubSeq(s, i, i)

\* `needle in hay` for strings: substring test (the empty string is in
\* every string)
StrIn(needle, hay) ==
    \/ needle = ""
    \/ \E i \in 1..(Len(hay) - Len(needle) + 1) :
           SubSeq(hay, i, i + Len(needle) - 1) = needle

IsSpace(c) == c \in {" ", NL}

\* str.strip(): drop leading and trailing whitespace
RECURSIVE LStrip(_)
LStrip(s) ==
    IF Len(s) > 0 /\ IsSpace(CharAt(s, 1))
    THEN LStrip(SubSeq(s, 2, Len(s)))
    ELSE s

RECURSIVE RStrip(_)
RStrip(s) ==
    IF Len(s) > 0 /\ IsSpace(CharAt(s, Len(s)))
    THEN RStrip(SubSeq(s, 1, Len(s) - 1))
    ELSE s

Strip(s) == LStrip(RStrip(s))

\* the positions of the characters of s that are sep (that are whitespace
\* when sep is "")
Seps(s, sep) ==
    {i \in 1..Len(s) : IF sep = "" THEN IsSpace(CharAt(s, i))
                                   ELSE CharAt(s, i) = sep}

\* str.split(sep) for a one-character separator: n separators give n+1
\* fields, empty fields included
RECURSIVE Split(_, _)
Split(s, sep) ==
    LET S == Seps(s, sep)
    IN  IF S = {} THEN <<s>>
        ELSE LET i == CHOOSE k \in S : \A j \in S : k <= j
             IN  <<SubSeq(s, 1, i - 1)>> \o Split(SubSeq(s, i + 1, Len(s)), sep)

\* str.split() without argument: split on runs of whitespace, no empty field
RECURSIVE SplitWs(_)
SplitWs(s) ==
    LET t == LStrip(s)
        S == Seps(t, "")
    IN  IF t = "" THEN <<>>
        ELSE LET n == IF S = {} THEN Len(t)
                      ELSE (CHOOSE k \in S : \A j \in S : k <= j) - 1
             IN  <<SubSeq(t, 1, n)>> \o SplitWs(SubSeq(t, n + 1, Len(t)))

\* sep.join(seq)
RECURSIVE Join(_, _)
Join(seq, sep) ==
    IF seq = <<>> THEN ""
    ELSE IF Len(seq) = 1 THEN seq[1]
    ELSE seq[1] \o sep \o Join(Tail(seq), sep)

(***************************************************************************)
(* Product and ProductTracker.  A tracker is a function from the known     *)
(* product names to a Product; a Product is its _versions dict: a function *)
(* from the registered versions to their sets of tags.                     *)
(***************************************************************************)
\* the value of an omitted tag argument; `if tag:` treats None and '' alike
None == ""

ProductTracker == [p \in {} |-> {}]

Product == [v \in {} |-> {}]

add_version(prod, version) ==
    IF version \in DOMAIN prod
    THEN prod
    ELSE [v \in (DOMAIN prod) \cup {version} |->
             IF v = version THEN {} ELSE prod[v]]

\* self._versions[version].add(tag): the version must be registered
add_tag(prod, version, tag) ==
    [prod EXCEPT ![version] = @ \cup {tag}]

\* line 173 raises KeyError when the version is not registered
add_tag_raises(prod, version) == version \notin DOMAIN prod

\* Product.versions(tag): the versions tagged `tag`
versions(prod, tag) == {v \in DOMAIN prod : tag \in prod[v]}

\* Product.tags(): the union of the tags of all versions
tags_of(prod) == UNION {prod[v] : v \in DOMAIN prod}

\* a _versions dict that defaults to no tags
tags_defaultdict(prod, version) ==
    [raised |-> "",
     val    |-> IF version \in DOMAIN prod THEN prod[version] ELSE {}]

\* Product.tags(version), lines 192-193: the tags of one version, or the
\* KeyError of the lookup
tags_of_version(prod, version) ==
    IF version \in DOMAIN prod
    THEN [raised |-> "", val |-> prod[version]]
    ELSE [raised |-> "KeyError", val |-> {}]

tags_for_product(tr, product_name) ==
    IF product_name \in DOMAIN tr THEN tags_of(tr[product_name]) ELSE {}

products_for_tag(tr, tag) ==
    UNION {{<<p, v>> : v \in versions(tr[p], tag)} : p \in DOMAIN tr}

has_version(tr, product_name, version) ==
    /\ product_name \in DOMAIN tr
    /\ version \in DOMAIN tr[product_name]

\* ProductTracker.current, lines 229-230: val is the set of the values the
\* call may return, the first element of versions("current") in the order
\* of the dict, or None when the product is unknown; indexing the empty
\* list raises IndexError
current(tr, product_name) ==
    IF product_name \in DOMAIN tr
    THEN IF versions(tr[product_name], "current") = {}
         THEN [raised |-> "IndexError", val |-> {}]
         ELSE [raised |-> "", val |-> versions(tr[product_name], "current")]
    ELSE [raised |-> "", val |-> {None}]

\* the add_tag of line 247 raises
insert_raises(tr, product, version, tag) ==
    /\ tag # ""
    /\ add_tag_raises(add_version(IF product \in DOMAIN tr THEN tr[product]
                                                            ELSE Product,
                                  version), version)

\* an insert that starts the version's tags afresh
insert_fresh(tr, product, version, tag) ==
    [p \in (DOMAIN tr) \cup {product} |->
        IF p = product
        THEN [v \in (IF p \in DOMAIN tr THEN DOMAIN tr[p] ELSE {}) \cup {version} |->
                 IF v = version THEN (IF tag # "" THEN {tag} ELSE {})
                 ELSE tr[p][v]]
        ELSE tr[p]]

insert(tr, product, version, tag) ==
    LET tr1 == IF product \in DOMAIN tr
               THEN tr
               ELSE [p \in (DOMAIN tr) \cup {product} |->
                        IF p = product THEN Product ELSE tr[p]]
        tr2 == [tr1 EXCEPT ![product] = add_version(@, version)]
    IN  IF tag # ""
        THEN [tr2 EXCEPT ![product] = add_tag(@, version, tag)]
        ELSE tr2

(***************************************************************************)
(* The remote repository: the index page (its link texts, in page order)   *)
(* and, per link, the tag file served: whether the fetch succeeds, its     *)
(* last-modified time and its body.                                        *)
(***************************************************************************)
\* cfg.version_glob, a regular expression without metacharacters:
\* re.match(pattern, text) then holds iff text starts with pattern
VERSION_GLOB == "w"

re_match(pattern, text) ==
    /\ Len(text) >= Len(pattern)
    /\ SubSeq(text, 1, Len(pattern)) = pattern

\* el.text[-5:]
Last5(text) == SubSeq(text, IF Len(text) > 5 THEN Len(text) - 4 ELSE 1, Len(text))

\* el.text[:-5]
DropLast5(text) == SubSeq(text, 1, Len(text) - 5)

\* "EUPS distribution %s version list" % tag
HeaderOf(tag) == "EUPS distribution " \o tag \o " version list"

\* a reader that skips the lines it cannot parse
RECURSIVE parse_body_lenient(_, _, _)
parse_body_lenient(tr, tag, lines) ==
    IF lines = <<>> THEN [ok |-> TRUE, tr |-> tr]
    ELSE LET cols == SplitWs(Head(lines))
         IN  IF Len(cols) = 3 /\ CharAt(cols[1], 1) # "#"
             THEN parse_body_lenient(insert(tr, cols[1], cols[3], tag), tag,
                                     Tail(lines))
             ELSE parse_body_lenient(tr, tag, Tail(lines))

\* the loop over the lines of one tag file (lines 270-278); ok = FALSE when
\* a line raises (IndexError on a blank line, ValueError on a column count
\* other than three)
RECURSIVE parse_body(_, _, _)
parse_body(tr, tag, lines) ==
    IF lines = <<>> THEN [ok |-> TRUE, tr |-> tr]
    ELSE LET line == Head(lines)
         IN  IF StrIn(HeaderOf(tag), line) THEN parse_body(tr, tag, Tail(lines))
             ELSE IF Strip(line) = "" THEN [ok |-> FALSE, tr |-> tr]
             ELSE IF CharAt(Strip(line), 1) = "#" THEN parse_body(tr, tag, Tail(lines))
             ELSE LET cols == SplitWs(line)
                  IN  IF Len(cols) # 3 THEN [ok |-> FALSE, tr |-> tr]
                      ELSE parse_body(insert(tr, cols[1], cols[3], tag), tag, Tail(lines))

\* the loop over the links of the index page (lines 264-278)
RECURSIVE load_tags(_, _, _, _)
load_tags(files, links, tr, dates) ==
    IF links = <<>> THEN [ok |-> TRUE, tr |-> tr, tag_dates |-> dates]
    ELSE LET text == Head(links)
         IN  IF Last5(text) = ".list" /\ re_match(VERSION_GLOB, text)
             THEN IF ~files[text].ok
                  THEN [ok |-> FALSE, tr |-> tr, tag_dates |-> dates]
                  ELSE LET tag == DropLast5(text)
                           d   == [t \in (DOMAIN dates) \cup {tag} |->
                                      IF t = tag THEN files[text].date ELSE dates[t]]
                           b   == parse_body(tr, tag,
                                             Split(Strip(files[text].body), NL))
                       IN  IF ~b.ok
                           THEN [ok |-> FALSE, tr |-> b.tr, tag_dates |-> d]
                           ELSE load_tags(files, Tail(links), b.tr, d)
             ELSE load_tags(files, Tail(links), tr, dates)

\* RepositoryManager.__init__: ok = FALSE when the constructor raises
RepositoryManager(fd) ==
    IF ~fd.index_ok
    THEN [ok |-> FALSE, tr |-> ProductTracker, tag_dates |-> <<>>]
    ELSE load_tags(fd.files, fd.links, ProductTracker, <<>>)

(***************************************************************************)
(* The local stack as the eups commands see it: the installed              *)
(* (product, version) pairs with their tags, and the declared tag names.   *)
(***************************************************************************)
\* the order in which eups prints products and tags
PairOrder == <<<<"dist", "1">>, <<"sims", "1">>, <<"sims", "2">>>>

TagOrder == <<"current", "setup", "up", "w1", "w2">>

\* output of `eups list --raw`: one line product|version|tag:tag per
\* installed version
EupsListRaw(stack) ==
    LET shown == SelectSeq(PairOrder, LAMBDA pv : pv \in DOMAIN stack)
        line(pv) == pv[1] \o "|" \o pv[2] \o "|" \o
                    Join(SelectSeq(TagOrder, LAMBDA t : t \in stack[pv]), ":")
    IN  Join([k \in 1..Len(shown) |-> line(shown[k])], NL) \o NL

\* output of `eups tags`
EupsTags(declared) ==
    Join(SelectSeq(TagOrder, LAMBDA t : t \in declared), " ") \o NL

\* effect of `eups declare -t tagname product version`: the tag names one
\* version of a product, so it leaves the other versions of the product
EupsDeclare(stack, product, version, tagname) ==
    [pv \in DOMAIN stack |->
        IF pv = <<product, version>> THEN stack[pv] \cup {tagname}
        ELSE IF pv[1] = product THEN stack[pv] \ {tagname}
        ELSE stack[pv]]

\* effect of a successful `eups distrib install --no-server-tags`: the
\* pairs in `new` are installed, untagged unless already present
EupsInstall(stack, new) ==
    [pv \in (DOMAIN stack) \cup new |->
        IF pv \in DOMAIN stack THEN stack[pv] ELSE {}]

(***************************************************************************)
(* StackManager.                                                           *)
(***************************************************************************)
\* the loop over the tags of one inventory line (lines 343-346); `in`
\* applied to the string ("setup") is a substring test
RECURSIVE insert_tags(_, _, _, _)
insert_tags(tr, product, version, tags) ==
    IF tags = <<>> THEN tr
    ELSE IF StrIn(Head(tags), "setup")
         THEN insert_tags(tr, product, version, Tail(tags))
         ELSE insert_tags(insert(tr, product, version, Head(tags)),
                          product, version, Tail(tags))

\* the loop over the lines of the inventory (lines 337-346); every
\* non-empty line has the three fields product|version|tags
RECURSIVE refresh_lines(_, _)
refresh_lines(tr, lines) ==
    IF lines = <<>> THEN tr
    ELSE LET line == Head(lines)
         IN  IF line = "" THEN refresh_lines(tr, Tail(lines))
             ELSE LET f   == Split(line, "|")
                      tr1 == IF f[3] = "" THEN insert(tr, f[1], f[2], None) ELSE tr
                  IN  refresh_lines(insert_tags(tr1, f[1], f[2], Split(f[3], ":")),
                                    Tail(lines))

\* StackManager._refresh_products on the output of `eups list --raw`
refresh_products(output) ==
    refresh_lines(ProductTracker, Split(Strip(output), NL))

\* StackManager.tags(): the output of `eups tags`, split on whitespace
sm_tags(output) == {SplitWs(output)[k] : k \in 1..Len(SplitWs(output))}

(***************************************************************************)
(* State.                                                                  *)
(***************************************************************************)
VARIABLES
    feed,           \* the remote repository (index page and tag files)
    root,           \* cfg.root: "absent", "broken" (no usable stack) or "ok"
    stack,          \* installed (product, version) pairs -> their tags
    declared,       \* the tag names `eups tags` reports
    userdata,       \* TRUE while the scratch directory of the run exists
    sm,             \* sm._product_tracker
    rm,             \* rm._product_tracker and rm.tag_dates
    pc,             \* position in main()
    run,            \* number of the current run of main()
    i,              \* index of `product` in cfg.products
    server_tags,
    installed_tags,
    todo,           \* the tags of candidate_tags not yet iterated
    tag,
    pairs,          \* the (sub_product, version) pairs not yet iterated
    current_tag,
    last_current,   \* product -> version of the latest declare of "current"
    log             \* bag of the commands issued and the steps of main()

vars == <<feed, root, stack, declared, userdata, sm, rm, pc, run, i,
          server_tags, installed_tags, todo, tag, pairs, current_tag,
          last_current, log>>

env == <<feed, root, stack, declared>>

locals == <<server_tags, installed_tags, todo, tag, pairs, current_tag>>

\* cfg.products
PRODUCTS == <<"sims", "dist">>

product == PRODUCTS[i]

(***************************************************************************)
(* Initial states: a remote repository and a local installation.           *)
(***************************************************************************)
Links == <<"w1.list", "w2.list", "x1.list", "w2.txt">>

\* the lines that follow the header line in w1.list and in w2.list
Bodies1 ==
    { <<"sims g 1", "dist g 1">>,
      <<"sims g 1">> }

Bodies2 ==
    { <<"# built by ci", "sims g 2">>,
      <<"dist g 1", "sims g 1">>,
      <<"sims 1">> }

Body(t, lines) ==
    HeaderOf(t) \o ". Version 1.0" \o NL \o Join(lines, NL) \o NL

\* which fetch fails, if any
NetFail == {"none", "index", "w1.list", "w2.list"}

Feed(nf, d1, d2, b1, b2) ==
    [index_ok |-> nf # "index",
     links    |-> Links,
     files    |-> [f \in {Links[k] : k \in 1..Len(Links)} |->
                     IF f = "w1.list"
                     THEN [ok |-> nf # f, date |-> d1, body |-> Body("w1", b1)]
                     ELSE IF f = "w2.list"
                     THEN [ok |-> nf # f, date |-> d2, body |-> Body("w2", b2)]
                     ELSE [ok |-> FALSE, date |-> 1, body |-> ""]]]

Feeds ==
    {Feed(nf, d1, d2, b1, b2) :
        nf \in NetFail, d1 \in 1..MaxDate, d2 \in 1..MaxDate,
        b1 \in Bodies1, b2 \in Bodies2}

Fn0 == [x \in {} |-> {}]

\* local installations found at the start of the first run
Stacks ==
    { [root |-> "absent", stack |-> Fn0, declared |-> {"current"}],
      [root |-> "ok",
       stack |-> (<<"sims", "1">> :> {"current", "setup", "w1"}),
       declared |-> {"current", "w1"}],
      [root |-> "ok",
       stack |-> (<<"sims", "1">> :> {"current", "w1"}) @@
                 (<<"sims", "2">> :> {"w2"}),
       declared |-> {"current", "w1", "w2"}],
      [root |-> "ok",
       stack |-> (<<"dist", "1">> :> {"setup"}),
       declared |-> {"current"}],
      [root |-> "broken", stack |-> Fn0, declared |-> {}] }

\* main() not started
Idle ==
    /\ userdata = FALSE
    /\ sm = ProductTracker
    /\ rm = [tr |-> ProductTracker, tag_dates |-> <<>>]
    /\ pc = "start"
    /\ run = 1
    /\ i = 1
    /\ server_tags = {}
    /\ installed_tags = {}
    /\ todo = {}
    /\ tag = ""
    /\ pairs = {}
    /\ current_tag = ""
    /\ last_current = Fn0
    /\ log = EmptyBag

Init ==
    /\ feed \in Feeds
    /\ \E s \in Stacks :
          /\ root = s.root
          /\ stack = s.stack
          /\ declared = s.declared
    /\ Idle

(***************************************************************************)
(* The log.                                                                *)
(***************************************************************************)
Rec(cmd, p, v, t, res) ==
    [run |-> run, i |-> i, cmd |-> cmd, p |-> p, v |-> v, t |-> t, res |-> res]

Logged(r) == log' = log (+) SetToBag({r})

Logged2(r1, r2) == log' = log (+) SetToBag({r1}) (+) SetToBag({r2})

\* the records of the log that satisfy a condition, as a set
Recs == BagToSet(log)

\* an external command may exit nonzero while fewer than MaxFail did
CanFail ==
    BagCardinality([r \in {x \in Recs : x.res = "fail"} |-> log[r]]) < MaxFail

(***************************************************************************)
(* main().                                                                 *)
(***************************************************************************)
\* a fan-out that tags only the product of the iteration
fan_out_own(tr, t, prod) == {pv \in products_for_tag(tr, t) : pv[1] = prod}

\* lines 529 and 541: the pairs that apply_tag is called on, for the tag
\* installed or elected while `prod` is the product of the iteration
fan_out(tr, t, prod) == products_for_tag(tr, t)

\* a diff that forgets what is installed
candidate_tags_all(server, installed) == server

\* line 518
candidate_tags(server, installed) == server \ installed

\* an availability that does not look at the local stack
available_any(server, local) == server

\* line 536
available_tags(server, local) == server \cap local

\* an election of the oldest tag
min_by_date(available, dates) ==
    {t \in available : \A u \in available : dates[t] <= dates[u]}

\* lines 538-539: max() returns a tag with the greatest date; among equal
\* dates it returns the one the set iteration yields first, which may be
\* any of them
max_by_date(available, dates) ==
    {t \in available : \A u \in available : dates[u] <= dates[t]}

\* a registration that does not look at what `eups tags` lists
needs_global_tag_always(t, listed) == TRUE

\* line 524: `tag not in sm.tags()`
needs_global_tag(t, listed) == t \notin listed

\* lines 532-533: a CalledProcessError raised inside the try block is
\* caught and the loop goes on to the next candidate tag
on_error_in_try == "tag"

\* lines 541-542: a CalledProcessError raised by the election's apply_tag is
\* not caught and ends main()
on_error_in_election == "aborted"

\* lines 504-510: the scratch directory is made, then the StackManager is
\* constructed, after bootstrapping the stack when cfg.root does not exist
Start ==
    /\ pc = "start"
    /\ userdata' = TRUE
    /\ UNCHANGED <<feed, stack, declared, rm, run, i, locals, last_current>>
    /\ \/ \* newinstall.sh or a conda install fails: create_stack raises
          /\ root = "absent"
          /\ CanFail
          /\ root' = "broken"
          /\ Logged(Rec("bootstrap", "", "", "", "fail"))
          /\ pc' = "aborted"
          /\ UNCHANGED sm
       \/ \* no stack to load in cfg.root: StackManager.__init__ raises
          /\ root = "broken"
          /\ Logged(Rec("list", "", "", "", "fail"))
          /\ pc' = "aborted"
          /\ UNCHANGED <<root, sm>>
       \/ \* `eups list` fails in StackManager.__init__
          /\ root \in {"absent", "ok"}
          /\ CanFail
          /\ root' = "ok"
          /\ Logged(Rec("list", "", "", "", "fail"))
          /\ pc' = "aborted"
          /\ sm' = ProductTracker
       \/ /\ root \in {"absent", "ok"}
          /\ root' = "ok"
          /\ sm' = refresh_products(EupsListRaw(stack))
          /\ pc' = "fetch"
          /\ UNCHANGED log

\* line 512
Fetch ==
    /\ pc = "fetch"
    /\ LET r == RepositoryManager(feed)
       IN  IF r.ok
           THEN /\ rm' = [tr |-> r.tr, tag_dates |-> r.tag_dates]
                /\ pc' = "product"
           ELSE /\ pc' = "aborted"
                /\ UNCHANGED rm
    /\ i' = 1
    /\ UNCHANGED <<env, userdata, sm, run, locals, last_current, log>>

\* lines 514-518: the next product of cfg.products
Consider ==
    /\ pc = "product"
    /\ i <= Len(PRODUCTS)
    /\ server_tags' = tags_for_product(rm.tr, product)
    /\ installed_tags' = tags_for_product(sm, product)
    /\ todo' = candidate_tags(server_tags', installed_tags')
    /\ pc' = "tag"
    /\ log' = log (+) SetToBag(
                 {Rec("consider", product, "", "", "ok")}
                 \cup {Rec("candidate", product, "", t, "ok") : t \in todo'}
                 \cup {Rec("present", product, "", t, "ok") :
                          t \in server_tags' \cap installed_tags'})
    /\ UNCHANGED <<env, userdata, sm, rm, run, i, tag, pairs, current_tag,
                   last_current>>

\* lines 520-523: the next candidate tag, in the set's iteration order,
\* and sm.distrib_install(product, tag=tag)
Install ==
    /\ pc = "tag"
    /\ todo # {}
    /\ \E t \in todo :
          /\ tag' = t
          /\ todo' = todo \ {t}
          /\ \/ \* `eups distrib install` exits nonzero
                /\ CanFail
                /\ Logged(Rec("install", product, "", t, "fail"))
                /\ pc' = on_error_in_try
                /\ UNCHANGED <<stack, sm>>
             \/ \* it installs the product at a version the server lists
                \* under the tag, and any of the other products of the tag
                \E v \in versions(rm.tr[product], t) :
                \E deps \in SUBSET {pv \in products_for_tag(rm.tr, t) :
                                       pv[1] # product} :
                   /\ stack' = EupsInstall(stack, {<<product, v>>} \cup deps)
                   /\ \/ \* `eups list` fails in _refresh_products, after
                         \* the tracker was replaced by an empty one
                         /\ CanFail
                         /\ Logged2(Rec("install", product, "", t, "ok"),
                                    Rec("list", "", "", t, "fail"))
                         /\ sm' = ProductTracker
                         /\ pc' = on_error_in_try
                      \/ /\ Logged(Rec("install", product, "", t, "ok"))
                         /\ sm' = refresh_products(EupsListRaw(stack'))
                         /\ pc' = "global"
    /\ UNCHANGED <<feed, root, declared, userdata, rm, run, i,
                   server_tags, installed_tags, pairs, current_tag,
                   last_current>>

\* lines 524-529: register the tag unless `eups tags` lists it, then take
\* the products of the tag
GlobalTag ==
    /\ pc = "global"
    /\ \/ /\ CanFail
          /\ Logged(Rec("tags", "", "", tag, "fail"))
          /\ pc' = on_error_in_try
          /\ UNCHANGED <<declared, pairs>>
       \/ /\ LET listed == sm_tags(EupsTags(declared))
                 seen   == Rec("tags", "", "", tag,
                               IF tag \in listed THEN "listed" ELSE "unlisted")
             IN  IF needs_global_tag(tag, listed)
                 THEN /\ declared' = declared \cup {tag}
                      /\ Logged2(seen, Rec("add_global_tag", "", "", tag, "ok"))
                 ELSE /\ Logged(seen)
                      /\ UNCHANGED declared
          /\ pairs' = fan_out(rm.tr, tag, product)
          /\ pc' = IF pairs' = {} THEN "tag" ELSE "apply"
    /\ UNCHANGED <<feed, root, stack, userdata, sm, rm, run, i,
                   server_tags, installed_tags, todo, tag, current_tag,
                   last_current>>

\* the latest declare of "current" issued for each product
NoteCurrent(lc, pv, tagname) ==
    IF tagname = "current"
    THEN [p \in (DOMAIN lc) \cup {pv[1]} |-> IF p = pv[1] THEN pv[2] ELSE lc[p]]
    ELSE lc

\* an apply_tag without the has_version test of line 439
apply_tag_unguarded(pv, tagname, next, error) ==
    \/ /\ CanFail
       /\ Logged(Rec("apply_tag", pv[1], pv[2], tagname, "fail"))
       /\ pc' = error
       /\ pairs' = {}
       /\ last_current' = NoteCurrent(last_current, pv, tagname)
       /\ UNCHANGED <<stack, sm>>
    \/ /\ Logged(Rec("apply_tag", pv[1], pv[2], tagname, "ok"))
       /\ stack' = EupsDeclare(stack, pv[1], pv[2], tagname)
       /\ sm' = insert(sm, pv[1], pv[2], tagname)
       /\ last_current' = NoteCurrent(last_current, pv, tagname)
       /\ pc' = next
       /\ pairs' = pairs \ {pv}

\* lines 433-442: sm.apply_tag(pv[1], pv[2], tagname), going to `next`
\* when it returns and to `error` when the declare command exits nonzero
apply_tag(pv, tagname, next, error) ==
    IF ~has_version(sm, pv[1], pv[2])
    THEN /\ Logged(Rec("apply_tag", pv[1], pv[2], tagname, "noop"))
         /\ pc' = next
         /\ pairs' = pairs \ {pv}
         /\ UNCHANGED <<stack, sm, last_current>>
    ELSE \/ /\ CanFail
            /\ Logged(Rec("apply_tag", pv[1], pv[2], tagname, "fail"))
            /\ pc' = error
            /\ pairs' = {}
            /\ last_current' = NoteCurrent(last_current, pv, tagname)
            /\ UNCHANGED <<stack, sm>>
         \/ /\ Logged(Rec("apply_tag", pv[1], pv[2], tagname, "ok"))
            /\ stack' = EupsDeclare(stack, pv[1], pv[2], tagname)
            /\ sm' = insert(sm, pv[1], pv[2], tagname)
            /\ last_current' = NoteCurrent(last_current, pv, tagname)
            /\ pc' = next
            /\ pairs' = pairs \ {pv}

\* lines 529-530: one iteration of the loop over rm.products_for_tag(tag)
Apply ==
    /\ pc = "apply"
    /\ \E pv \in pairs :
          apply_tag(pv, tag, IF pairs = {pv} THEN "tag" ELSE "apply",
                    on_error_in_try)
    /\ UNCHANGED <<feed, root, declared, userdata, rm, run, i,
                   server_tags, installed_tags, todo, tag, current_tag>>

\* lines 536-541: after the last candidate tag, elect the current tag
Elect ==
    /\ pc = "tag"
    /\ todo = {}
    /\ LET available == available_tags(server_tags, tags_for_product(sm, product))
       IN  IF available = {}
           THEN /\ i' = i + 1
                /\ pc' = "product"
                /\ Logged(Rec("elect", product, "", "", "noop"))
                /\ UNCHANGED <<current_tag, pairs>>
           ELSE /\ current_tag' \in max_by_date(available, rm.tag_dates)
                /\ pairs' = fan_out(rm.tr, current_tag', product)
                /\ pc' = "current"
                /\ log' = log (+) SetToBag(
                             {Rec("elect", product, "", current_tag', "ok")}
                             \cup {Rec("available", product, "", t, "ok") :
                                      t \in available})
                /\ UNCHANGED i
    /\ UNCHANGED <<env, userdata, sm, rm, run,
                   server_tags, installed_tags, todo, tag, last_current>>

\* lines 541-542: one iteration of the loop over
\* rm.products_for_tag(current_tag)
ApplyCurrent ==
    /\ pc = "current"
    /\ \E pv \in pairs :
          /\ apply_tag(pv, "current",
                       IF pairs = {pv} THEN "product" ELSE "current",
                       on_error_in_election)
          /\ i' = IF pc' = "product" THEN i + 1 ELSE i
    /\ UNCHANGED <<feed, root, declared, userdata, rm, run,
                   server_tags, installed_tags, todo, tag, current_tag>>

\* line 544: after the last product
Finish ==
    /\ pc = "product"
    /\ i > Len(PRODUCTS)
    /\ userdata' = FALSE
    /\ pc' = "done"
    /\ UNCHANGED <<env, sm, rm, run, i, locals, last_current, log>>

\* main() is run again, on the same repository and on the installation as
\* the previous run left it, after a run in which no command exited nonzero
Rerun ==
    /\ pc \in {"done", "aborted"}
    /\ \A r \in Recs : r.res # "fail"
    /\ run < MaxRuns
    /\ run' = run + 1
    /\ pc' = "start"
    /\ sm' = ProductTracker
    /\ rm' = [tr |-> ProductTracker, tag_dates |-> <<>>]
    /\ i' = 1
    /\ server_tags' = {}
    /\ installed_tags' = {}
    /\ todo' = {}
    /\ tag' = ""
    /\ pairs' = {}
    /\ current_tag' = ""
    /\ last_current' = Fn0
    /\ UNCHANGED <<env, userdata, log>>

\* one run of main()
Next ==
    \/ Start
    \/ Fetch
    \/ Consider
    \/ Install
    \/ GlobalTag
    \/ Apply
    \/ Elect
    \/ ApplyCurrent
    \/ Finish

Spec == Init /\ [][Next]_vars

\* consecutive runs of main()
NextRerun ==
    \/ Next
    \/ Rerun

SpecRerun == Init /\ [][NextRerun]_vars

(***************************************************************************)
(* The inventory reader alone: _refresh_products applied to the inventory  *)
(* of a local installation.                                                *)
(***************************************************************************)
InventoryPairs == {<<"sims", "1">>, <<"sims", "2">>}

InventoryTags == {"setup", "up", "w1"}

Inventories ==
    UNION {[ps -> SUBSET InventoryTags] : ps \in SUBSET InventoryPairs}

InitParse ==
    /\ feed = Feed("none", 1, 1, <<>>, <<>>)
    /\ root = "ok"
    /\ stack \in Inventories
    /\ declared = {"current"}
    /\ Idle

\* line 326: StackManager.__init__ reads the inventory
Refresh ==
    /\ pc = "start"
    /\ sm' = refresh_products(EupsListRaw(stack))
    /\ pc' = "listed"
    /\ UNCHANGED <<env, userdata, rm, run, i, locals, last_current, log>>

NextParse == Refresh

SpecParse == InitParse /\ [][NextParse]_vars

(***************************************************************************)
(* The ProductTracker alone: calls of its methods, and of the methods of   *)
(* its Products, on the tracker that the earlier calls built.  The log     *)
(* holds the last call and how it ended; server_tags holds the set of tags *)
(* and current_tag the version that the last call returned.                *)
(***************************************************************************)
Names == {PRODUCTS[k] : k \in 1..Len(PRODUCTS)}

VersionNames == {"1", "2"}

TagNames == {"w1", "current"}

InitTracker ==
    /\ feed = Feed("none", 1, 1, <<>>, <<>>)
    /\ root = "ok"
    /\ stack = Fn0
    /\ declared = {}
    /\ Idle

LastCall(r) == log' = SetToBag({r})

\* ProductTracker.insert(p, v, t), t omitted or given
TrackerInsert ==
    /\ \E p \in Names, v \in VersionNames, t \in TagNames \cup {None} :
          IF insert_raises(sm, p, v, t)
          THEN /\ LastCall(Rec("insert", p, v, t, "KeyError"))
               /\ UNCHANGED sm
          ELSE /\ LastCall(Rec("insert", p, v, t, "ok"))
               /\ sm' = insert(sm, p, v, t)
    /\ server_tags' = {}
    /\ current_tag' = ""
    /\ UNCHANGED <<env, userdata, rm, pc, run, i, installed_tags, todo, tag,
                   pairs, last_current>>

\* Product.add_tag(v, t) on a product of the tracker
TrackerAddTag ==
    /\ \E p \in DOMAIN sm, v \in VersionNames, t \in TagNames :
          IF add_tag_raises(sm[p], v)
          THEN /\ LastCall(Rec("add_tag", p, v, t, "KeyError"))
               /\ UNCHANGED sm
          ELSE /\ LastCall(Rec("add_tag", p, v, t, "ok"))
               /\ sm' = [sm EXCEPT ![p] = add_tag(@, v, t)]
    /\ server_tags' = {}
    /\ current_tag' = ""
    /\ UNCHANGED <<env, userdata, rm, pc, run, i, installed_tags, todo, tag,
                   pairs, last_current>>

\* Product.tags(v) on a product of the tracker
TrackerTags ==
    /\ \E p \in DOMAIN sm, v \in VersionNames :
          LET r == tags_of_version(sm[p], v)
          IN  /\ LastCall(Rec("tags", p, v, "",
                              IF r.raised = "" THEN "ok" ELSE r.raised))
              /\ server_tags' = r.val
    /\ current_tag' = ""
    /\ UNCHANGED <<env, userdata, sm, rm, pc, run, i, installed_tags, todo,
                   tag, pairs, last_current>>

\* ProductTracker.tags_for_product(p)
TrackerTagsForProduct ==
    /\ \E p \in Names :
          /\ LastCall(Rec("tags_for_product", p, "", "", "ok"))
          /\ server_tags' = tags_for_product(sm, p)
    /\ current_tag' = ""
    /\ UNCHANGED <<env, userdata, sm, rm, pc, run, i, installed_tags, todo,
                   tag, pairs, last_current>>

\* ProductTracker.current(p)
TrackerCurrent ==
    /\ \E p \in Names :
          LET r == current(sm, p)
          IN  /\ LastCall(Rec("current", p, "", "",
                              IF r.raised = "" THEN "ok" ELSE r.raised))
              /\ IF r.raised = "" THEN current_tag' \in r.val
                                  ELSE current_tag' = ""
    /\ server_tags' = {}
    /\ UNCHANGED <<env, userdata, sm, rm, pc, run, i, installed_tags, todo,
                   tag, pairs, last_current>>

NextTracker ==
    \/ TrackerInsert
    \/ TrackerAddTag
    \/ TrackerTags
    \/ TrackerTagsForProduct
    \/ TrackerCurrent

SpecTracker == InitTracker /\ [][NextTracker]_vars

(***************************************************************************)
(* Properties.                                                             *)
(***************************************************************************)
IsInstall(r) == r.cmd = "install"

\* an apply_tag call that issued its declare command
IsDeclare(r) == r.cmd = "apply_tag" /\ r.res # "noop"

NoFailure == \A r \in Recs : r.run = run => r.res # "fail"

Ended == pc \in {"done", "aborted"}

\* the products after the k-th were all taken up by the loop of run rn
LaterProductsConsidered(rn, k) ==
    \A j \in (k + 1)..Len(PRODUCTS) :
        \E c \in Recs : c.run = rn /\ c.i = j /\ c.cmd = "consider"

\* no command of run rn exited nonzero, and each install of the run was
\* followed by a successful declare of the installed tag on the product
CleanRun(rn) ==
    /\ \A r \in Recs : r.run = rn => r.res # "fail"
    /\ \A r \in Recs :
          (r.run = rn /\ IsInstall(r)) =>
              \E a \in Recs : /\ a.run = rn /\ a.i = r.i /\ a.cmd = "apply_tag"
                               /\ a.p = r.p /\ a.t = r.t /\ a.res = "ok"

C2_InstallFailureIsolated ==
    Ended =>
        \A r \in Recs :
            (r.run = run /\ IsInstall(r) /\ r.res = "fail") =>
                /\ \A c \in Recs :
                      (c.run = run /\ c.i = r.i /\ c.cmd = "candidate") =>
                          \E a \in Recs : /\ a.run = run /\ a.i = r.i
                                           /\ IsInstall(a) /\ a.t = c.t
                /\ \E e \in Recs : e.run = run /\ e.i = r.i /\ e.cmd = "elect"
                /\ LaterProductsConsidered(run, r.i)

\* C3: the tags main() attempts to install for a product are exactly its
\* server tags minus the tags read from the local stack at the start of
\* the product's iteration, each attempted exactly once; no install is
\* issued when the server tags are all installed.
C3_DiffCorrect ==
    /\ pc \in {"tag", "global", "apply", "current"} =>
          LET cand == tags_for_product(rm.tr, product) \ installed_tags
              inst == {r \in Recs : r.run = run /\ r.i = i /\ IsInstall(r)}
          IN  /\ \A r \in inst : r.t \in cand /\ CopiesIn(r, log) = 1
              /\ \A r1, r2 \in inst : r1.t = r2.t => r1 = r2
              /\ (pc = "current" \/ (pc = "tag" /\ todo = {})) =>
                     {r.t : r \in inst} = cand
              /\ tags_for_product(rm.tr, product) \subseteq installed_tags =>
                     inst = {}
    /\ \A e \in Recs :
          e.cmd = "elect" =>
              {r.t : r \in {x \in Recs : x.run = e.run /\ x.i = e.i /\ IsInstall(x)}}
                = {c.t : c \in {x \in Recs : /\ x.run = e.run /\ x.i = e.i
                                               /\ x.cmd = "candidate"}}

C3_Witness ==
    /\ pc = "tag"
    /\ todo = {}
    /\ installed_tags \cap server_tags # {}
    /\ \E r \in Recs : r.run = run /\ r.i = i /\ IsInstall(r) /\ r.res = "ok"

\* the tags of the product on the server that the local tracker shows
Available(prod) ==
    tags_for_product(rm.tr, prod) \cap tags_for_product(sm, prod)

\* C4: the tag elected for a product is one of its available tags and no
\* available tag has a later publication timestamp; no tag is elected
\* only when no tag is available.
C4_CurrentIsMostRecent ==
    /\ pc = "current" =>
          /\ current_tag \in Available(product)
          /\ \A u \in Available(product) :
                rm.tag_dates[u] <= rm.tag_dates[current_tag]
    /\ (pc = "product" /\ i > 1) =>
          \A e \in Recs :
              (e.run = run /\ e.i = i - 1 /\ e.cmd = "elect" /\ e.res = "noop")
                  => Available(PRODUCTS[i - 1]) = {}

C4_Witness ==
    /\ pc = "current"
    /\ \E u \in Available(product) :
          rm.tag_dates[u] < rm.tag_dates[current_tag]

\* the try block of the install is still running
BlockOpen(r) ==
    r.run = run /\ r.i = i /\ r.t = tag /\ pc \in {"global", "apply"}

Applied(r, pv) ==
    \E a \in Recs : /\ a.run = r.run /\ a.i = r.i /\ a.cmd = "apply_tag"
                     /\ a.t = r.t /\ a.p = pv[1] /\ a.v = pv[2]

\* the inventory refresh and `eups tags` that follow the install succeeded
LoopEntered(r) ==
    ~\E f \in Recs : /\ f.run = r.run /\ f.i = r.i /\ f.t = r.t
                      /\ f.cmd \in {"list", "tags"} /\ f.res = "fail"

\* C5 as stated: after a successful install of (P, T), once the loop over
\* the pairs the server lists under T is entered, apply_tag is called for
\* every pair, also for the pairs that come after a pair whose declare
\* command exits nonzero.
C5_FanOutAll ==
    \A r \in Recs :
        (IsInstall(r) /\ r.res = "ok" /\ ~BlockOpen(r) /\ LoopEntered(r)) =>
            \A pv \in products_for_tag(rm.tr, r.t) : Applied(r, pv)

\* C5, amended: after a successful install of (P, T), apply_tag is called
\* for every pair the server lists under T, not only for P, unless a
\* command of the same try block (the inventory refresh, `eups tags` or a
\* declare) exits nonzero, which skips the pairs not yet tagged.
C5_FanOutUntilFailure ==
    \A r \in Recs :
        (IsInstall(r) /\ r.res = "ok" /\ ~BlockOpen(r)) =>
            \/ \A pv \in products_for_tag(rm.tr, r.t) : Applied(r, pv)
            \/ \E f \in Recs : /\ f.run = r.run /\ f.i = r.i /\ f.t = r.t
                                 /\ f.cmd \in {"list", "tags", "apply_tag"}
                                 /\ f.res = "fail"

C5_Witness ==
    \E r \in Recs :
        /\ IsInstall(r) /\ r.res = "ok" /\ ~BlockOpen(r)
        /\ NoFailure
        /\ \E pv \in products_for_tag(rm.tr, r.t) : pv[1] # r.p
        /\ \A pv \in products_for_tag(rm.tr, r.t) : Applied(r, pv)

\* the product had candidate tags and the install of each of them failed
AllCandidatesFailed(rn, k) ==
    /\ \E c \in Recs : c.run = rn /\ c.i = k /\ c.cmd = "candidate"
    /\ \A c \in Recs :
          (c.run = rn /\ c.i = k /\ c.cmd = "candidate") =>
              \E a \in Recs : /\ a.run = rn /\ a.i = k /\ IsInstall(a)
                               /\ a.t = c.t /\ a.res = "fail"

NoCurrentFor(rn, k) ==
    ~\E a \in Recs : a.run = rn /\ a.i = k /\ IsDeclare(a) /\ a.t = "current"

\* C6 as stated: when every candidate install of a product fails, no tag
\* is available and no declare of "current" is issued for the product,
\* whatever tags the product carried before.
C6_EmptyAvailability ==
    \A e \in Recs :
        (e.cmd = "elect" /\ AllCandidatesFailed(e.run, e.i)) =>
            e.res = "noop" /\ NoCurrentFor(e.run, e.i)

\* C6, amended: when every candidate install of a product fails and the
\* product carried none of its server tags locally at the start of its
\* iteration, no tag is available and no declare of "current" is issued
\* for the product.
C6_EmptyAvailabilityFromNothing ==
    \A e \in Recs :
        (/\ e.cmd = "elect"
         /\ AllCandidatesFailed(e.run, e.i)
         /\ ~\E c \in Recs : c.run = e.run /\ c.i = e.i /\ c.cmd = "present") =>
            e.res = "noop" /\ NoCurrentFor(e.run, e.i)

C6_Witness ==
    \E e \in Recs :
        /\ e.cmd = "elect"
        /\ AllCandidatesFailed(e.run, e.i)
        /\ ~\E c \in Recs : c.run = e.run /\ c.i = e.i /\ c.cmd = "present"
        /\ e.res = "noop"
        /\ DOMAIN stack # {}

\* the tags tracked for an installed version after the inventory is read
Tracked(pv) ==
    IF has_version(sm, pv[1], pv[2]) THEN sm[pv[1]][pv[2]] ELSE {}

\* C7: the tags tracked for the version of an inventory line are the tags
\* of the line minus the tag "setup", and nothing else is dropped.
C7_OnlySetupFiltered ==
    pc = "listed" =>
        \A pv \in DOMAIN stack : Tracked(pv) = stack[pv] \ {"setup"}

\* C8: a declare command that exits nonzero, the declare of "current"
\* included, does not halt the run: the later products are processed.
C8_DeclareFailureIsolated ==
    Ended =>
        \A r \in Recs :
            (r.run = run /\ IsDeclare(r) /\ r.res = "fail") =>
                LaterProductsConsidered(run, r.i)

\* C9: at the end of a run without failure, the last declare of "current"
\* issued for a product of the list with available tags names a version
\* of the product under an available tag with the latest timestamp.
C9_CurrentTracksLatest ==
    (pc = "done" /\ NoFailure) =>
        \A k \in 1..Len(PRODUCTS) :
            LET P == PRODUCTS[k]
                latest == {t \in Available(P) :
                              \A u \in Available(P) :
                                  rm.tag_dates[u] <= rm.tag_dates[t]}
            IN  Available(P) # {} =>
                    /\ P \in DOMAIN last_current
                    /\ \E t \in latest :
                          last_current[P] \in versions(rm.tr[P], t)

\* the links of the index page that the constructor fetches
Fetched ==
    {f \in {feed.links[k] : k \in 1..Len(feed.links)} :
        Last5(f) = ".list" /\ re_match(VERSION_GLOB, f)}

\* the lines after the header line of a tag file
BodyLinesOf(f) == Tail(Split(Strip(feed.files[f].body), NL))

\* a fetch fails, or a line that is no comment has not three columns
BadFeed ==
    \/ ~feed.index_ok
    \/ \E f \in Fetched :
          \/ ~feed.files[f].ok
          \/ LET lines == BodyLinesOf(f)
             IN  \E k \in 1..Len(lines) :
                    /\ CharAt(Strip(lines[k]) \o " ", 1) # "#"
                    /\ Len(SplitWs(lines[k])) # 3

\* C10: when a fetch fails or a tag file has a malformed line, the run
\* aborts before the loop over the products and issues no install, no
\* global-tag registration and no declare.
C10_FetchFailureIsFatal ==
    BadFeed =>
        /\ pc \in {"start", "fetch", "aborted"}
        /\ \A r \in Recs :
              ~(IsInstall(r) \/ IsDeclare(r) \/ r.cmd = "add_global_tag")

C10_Witness ==
    /\ pc = "aborted"
    /\ feed.index_ok
    /\ \A f \in Fetched : feed.files[f].ok
    /\ BadFeed
    /\ DOMAIN sm # {}

\* the records that a step adds to the log
NewRecs == {r \in BagToSet(log') : CopiesIn(r, log') > CopiesIn(r, log)}

\* an apply_tag call on a version the local tracker does not have: no
\* command, no error, nothing changed
IsNoOp(r) ==
    /\ r.res = "noop"
    /\ sm' = sm
    /\ stack' = stack
    /\ pc' # "aborted"
    /\ pairs' = pairs \ {<<r.p, r.v>>}

\* one apply_tag call, as C11 states it
DeclareAlwaysTags ==
    pc \in {"apply", "current"} =>
        /\ Cardinality(NewRecs) = 1
        /\ \A r \in NewRecs :
              /\ r.cmd = "apply_tag"
              /\ CopiesIn(r, log') = 1
              /\ IF ~has_version(sm, r.p, r.v)
                 THEN IsNoOp(r)
                 ELSE /\ r.res # "noop"
                      /\ has_version(sm', r.p, r.v)
                      /\ r.t \in sm'[r.p][r.v]

\* C11 as stated: apply_tag on a version the local tracker does not have
\* issues no declare, raises nothing and changes nothing; on a version it
\* has, one declare is issued and the tag is on the version in the tracker
\* afterwards, whatever the exit status of the declare.
C11_DeclareAlwaysTags == [][DeclareAlwaysTags]_vars

\* one apply_tag call, the exit status of the declare taken into account
DeclareTagsOnSuccess ==
    pc \in {"apply", "current"} =>
        /\ Cardinality(NewRecs) = 1
        /\ \A r \in NewRecs :
              /\ r.cmd = "apply_tag"
              /\ CopiesIn(r, log') = 1
              /\ IF ~has_version(sm, r.p, r.v)
                 THEN IsNoOp(r)
                 ELSE /\ r.res \in {"ok", "fail"}
                      /\ r.res = "ok" =>
                            /\ sm' = insert(sm, r.p, r.v, r.t)
                            /\ r.t \in sm'[r.p][r.v]
                      /\ r.res = "fail" =>
                            /\ sm' = sm
                            /\ pc' \in {on_error_in_try, on_error_in_election}

\* C11, amended: apply_tag on a version the local tracker does not have
\* issues no declare, raises nothing and changes nothing; on a version it
\* has, exactly one declare is issued, and the tag is added to the version
\* in the tracker when the declare exits zero, while the tracker is left as
\* it was and the error is raised when the declare exits nonzero.
C11_DeclareTagsOnSuccess == [][DeclareTagsOnSuccess]_vars

C11_Witness ==
    \E n, a \in Recs :
        /\ n.cmd = "apply_tag" /\ n.res = "noop"
        /\ ~has_version(sm, n.p, n.v)
        /\ a.cmd = "apply_tag" /\ a.res = "ok"
        /\ has_version(sm, a.p, a.v)
        /\ a.t \in sm[a.p][a.v]

\* every product, version and tag of tracker a is in tracker b
Monotone(a, b) ==
    \A p \in DOMAIN a :
        /\ p \in DOMAIN b
        /\ \A v \in DOMAIN a[p] :
              /\ v \in DOMAIN b[p]
              /\ a[p][v] \subseteq b[p][v]

\* C12: on every tracker and for every (product, version, tag), with the
\* tag given or omitted, insert raises nothing, a second insert of the same
\* triple changes nothing, and no product, version or tag present before
\* the insert is missing after it.
C12_InsertIdempotentMonotone ==
    /\ \A p \in Names, v \in VersionNames, t \in TagNames \cup {None} :
          LET once == insert(sm, p, v, t)
          IN  /\ ~insert_raises(sm, p, v, t)
              /\ insert(once, p, v, t) = once
              /\ Monotone(sm, once)
              /\ has_version(once, p, v)
              /\ t # None => t \in once[p][v]
    /\ \A c \in Recs : c.cmd = "insert" => c.res = "ok"

C12_Witness ==
    \E c \in Recs :
        /\ c.cmd = "insert" /\ c.res = "ok" /\ c.t # None
        /\ DOMAIN sm = Names
        /\ sm[c.p][c.v] = TagNames
        /\ insert(sm, c.p, c.v, c.t) = sm

\* C13: the tags of a registered version without tags are the empty set,
\* the tags of a version never registered are a KeyError, add_tag on a
\* version never registered raises and does not register it, and the tags
\* of an unknown product are the empty set.
C13_UnregisteredIsNotUntagged ==
    /\ \A p \in DOMAIN sm, v \in VersionNames :
          /\ v \in DOMAIN sm[p] =>
                /\ tags_of_version(sm[p], v) = [raised |-> "", val |-> sm[p][v]]
                /\ ~add_tag_raises(sm[p], v)
          /\ v \notin DOMAIN sm[p] =>
                /\ tags_of_version(sm[p], v).raised = "KeyError"
                /\ add_tag_raises(sm[p], v)
    /\ \A p \in Names \ DOMAIN sm : tags_for_product(sm, p) = {}
    /\ \A c \in Recs :
          /\ (c.cmd = "add_tag" /\ c.res = "KeyError") =>
                ~has_version(sm, c.p, c.v)
          /\ (c.cmd = "tags" /\ c.res = "KeyError") =>
                ~has_version(sm, c.p, c.v)
          /\ (c.cmd = "tags" /\ c.res = "ok") =>
                has_version(sm, c.p, c.v) /\ server_tags = sm[c.p][c.v]
          /\ c.cmd = "tags_for_product" =>
                /\ c.res = "ok"
                /\ c.p \notin DOMAIN sm => server_tags = {}

C13_Witness ==
    \E c \in Recs :
        /\ c.cmd = "tags" /\ c.res = "KeyError"
        /\ \E v \in DOMAIN sm[c.p] : sm[c.p][v] = {}
        /\ \E p \in Names : p \notin DOMAIN sm

\* C20: current(product_name) raises nothing: it returns None when the
\* product is unknown and when none of its versions is tagged "current",
\* and a version tagged "current" otherwise.
C20_CurrentOrNone ==
    /\ \A p \in Names :
          /\ current(sm, p).raised = ""
          /\ tags_for_product(sm, p) \cap {"current"} = {} =>
                current(sm, p).val = {None}
    /\ \A c \in Recs : c.cmd = "current" => c.res = "ok"

\* a record of command `cmd` with result `res` in the same iteration and
\* for the same tag as record r
SameBlock(r, cmd, res) ==
    \E g \in Recs : /\ g.run = r.run /\ g.i = r.i /\ g.t = r.t
                     /\ g.cmd = cmd /\ g.res = res

\* C14: a declare of a release tag is issued only after, in the same
\* iteration, `eups tags` listed the tag or add_global_tag registered it;
\* add_global_tag is called only for a tag that `eups tags` did not list
\* just before, once, and only after the install of the tag succeeded.
C14_RegistrationPrecedesDeclaration ==
    /\ \A r \in Recs :
          (IsDeclare(r) /\ r.t # "current") =>
              \/ SameBlock(r, "tags", "listed")
              \/ SameBlock(r, "add_global_tag", "ok")
    /\ \A g \in Recs :
          g.cmd = "add_global_tag" =>
              /\ CopiesIn(g, log) = 1
              /\ SameBlock(g, "tags", "unlisted")
              /\ ~SameBlock(g, "tags", "listed")
              /\ \E a \in Recs : /\ a.run = g.run /\ a.i = g.i /\ a.t = g.t
                                   /\ IsInstall(a) /\ a.res = "ok"
              /\ ~\E a \in Recs : /\ a.run = g.run /\ a.i = g.i /\ a.t = g.t
                                    /\ IsInstall(a) /\ a.res = "fail"
    /\ \A a \in Recs :
          (IsInstall(a) /\ a.res = "fail") => ~SameBlock(a, "add_global_tag", "ok")

C14_Witness ==
    \E r1, r2 \in Recs :
        /\ IsDeclare(r1) /\ r1.t # "current" /\ r1.res = "ok"
        /\ SameBlock(r1, "add_global_tag", "ok")
        /\ IsDeclare(r2) /\ r2.t # "current" /\ r2.res = "ok"
        /\ SameBlock(r2, "tags", "listed")
        /\ \E a \in Recs : IsInstall(a) /\ a.res = "fail"

\* what _refresh_products would build from the inventory at this moment
Rebuilt == refresh_products(EupsListRaw(stack))

\* C15: in a run without a failed command, the local tracker that the
\* election of a product reads (line 536) is the tracker rebuilt from the
\* inventory command at that moment.
C15_RefreshAfterMutation ==
    (pc = "tag" /\ todo = {} /\ NoFailure) => sm = Rebuilt

\* C18: after the inventory is read, every version the inventory lists is
\* registered in the tracker, whatever its tags are.
C18_InstalledIsRegistered ==
    pc = "listed" =>
        \A pv \in DOMAIN stack : has_version(sm, pv[1], pv[2])

\* C19: the local tracker never shows two versions of one product tagged
\* "current".
C19_SingleCurrent ==
    \A p \in DOMAIN sm : Cardinality(versions(sm[p], "current")) <= 1

\* the available tags among which election e chose
AvailableAt(e) ==
    {a.t : a \in {x \in Recs : /\ x.run = e.run /\ x.i = e.i
                                /\ x.cmd = "available"}}

\* C16: two elections for the same product among the same available tags,
\* with the same timestamps, elect the same tag.
C16_DeterministicTieBreak ==
    \A e1, e2 \in Recs :
        (/\ e1.cmd = "elect" /\ e1.res = "ok"
         /\ e2.cmd = "elect" /\ e2.res = "ok"
         /\ e1.p = e2.p
         /\ AvailableAt(e1) = AvailableAt(e2)) =>
            e1.t = e2.t

\* the tag elected for the k-th product in run rn, None when none was
ElectedIn(rn, k) ==
    {e.t : e \in {x \in Recs : x.run = rn /\ x.i = k /\ x.cmd = "elect"}}

\* the pairs on which run rn declared "current" for the k-th product
CurrentPairsIn(rn, k) ==
    {<<a.p, a.v>> : a \in {x \in Recs : /\ x.run = rn /\ x.i = k
                                          /\ IsDeclare(x) /\ x.t = "current"}}

\* C17: when a run without a failed command is followed by a second run
\* that also ends without one, the second run issues no install and, over
\* the products of the list, elects the same tags and declares "current"
\* on the same pairs as the first.
C17_StableReelection ==
    (run = 2 /\ pc = "done" /\ \A r \in Recs : r.res # "fail") =>
        /\ \A r \in Recs : r.run = 2 => ~IsInstall(r)
        /\ \A k \in 1..Len(PRODUCTS) : ElectedIn(2, k) = ElectedIn(1, k)
        /\ UNION {CurrentPairsIn(2, k) : k \in 1..Len(PRODUCTS)}
             = UNION {CurrentPairsIn(1, k) : k \in 1..Len(PRODUCTS)}

\* C21: whenever main() has ended, by returning or by an uncaught error,
\* the scratch directory made at its start no longer exists.
C21_ScratchRemoved ==
    Ended => ~userdata

====
